---- MODULE Spec2Model ----
(***************************************************************************)
(* suitcase.json_metadata: the Serializer (a DocumentRouter that collects  *)
(* the start, descriptor and stop documents of one run in self._meta and   *)
(* dumps them as JSON to "<file_prefix>meta.json" when the stop document   *)
(* arrives) and export(), which drives a Serializer over a generator of    *)
(* (name, document) pairs inside a with-block.                             *)
(*                                                                         *)
(* Two specifications share the state:                                     *)
(*   Spec        a caller uses one Serializer directly, calling start,     *)
(*               descriptor, stop, other document kinds and close in any   *)
(*               order and catching what they raise;                       *)
(*   SpecExport  export() is called (up to MaxRuns times on the same       *)
(*               directory), each call running its loop to the end.        *)
(***************************************************************************)
EXTENDS Integers, Sequences, FiniteSets, TLC

VARIABLES
    meta,                    \* self._meta['metadata']: a dict with keys among
                             \* "start", "stop", "descriptors"
    file_prefix,             \* self._file_prefix: the template
    templated_file_prefix,   \* self._templated_file_prefix
    reserved_names,          \* the manager's reserved names
    artifacts,               \* the manager's artifacts['run_metadata']
    files,                   \* the manager's file handles, in opening order
    disk,                    \* the directory: filename -> what the file holds
    raised,                  \* what the last call raised ("none": it returned)
    docs,                    \* the (name, doc) pairs fed to this Serializer
    pc,                      \* "direct", or where export() stands
    run,                     \* how many Serializers were constructed so far
    nfed,                    \* how many documents were fed to all of them
    exit_closes              \* how often __exit__ has called close()

vars == <<meta, file_prefix, templated_file_prefix, reserved_names, artifacts,
          files, disk, raised, docs, pc, run, nfed, exit_closes>>

serializer_vars == <<meta, file_prefix, templated_file_prefix>>
manager_vars == <<reserved_names, artifacts, files>>

(* Bounds of the model. *)
MaxDocs == 4
MaxRuns == 2

EmptyMap == [x \in {} |-> x]

(***************************************************************************)
(* Python values.  Every value is a record of one shape, so that any two   *)
(* can be compared: t is the type, s the text of a scalar, keys/items the  *)
(* keys and members of a container.                                        *)
(***************************************************************************)
Str(s) == [t |-> "str", s |-> s, keys |-> <<>>, items |-> <<>>]
Num(s) == [t |-> "int", s |-> s, keys |-> <<>>, items |-> <<>>]
NpScalar(s) == [t |-> "np_scalar", s |-> s, keys |-> <<>>, items |-> <<>>]
NpArray(xs) == [t |-> "np_array", s |-> "", keys |-> <<>>, items |-> xs]
Tuple(xs) == [t |-> "tuple", s |-> "", keys |-> <<>>, items |-> xs]
List(xs) == [t |-> "list", s |-> "", keys |-> <<>>, items |-> xs]
Dict(ks, xs) == [t |-> "dict", s |-> "", keys |-> ks, items |-> xs]
Object(s) == [t |-> "object", s |-> s, keys |-> <<>>, items |-> <<>>]
None == [t |-> "none", s |-> "", keys |-> <<>>, items |-> <<>>]

(* The types json encodes without help, and the numpy types. *)
NativeTypes == {"str", "int", "list", "tuple", "dict", "none"}
NumpyTypes == {"np_scalar", "np_array"}

(***************************************************************************)
(* NumpyEncoder.default(obj): a numpy scalar becomes obj.item(), a numpy   *)
(* array obj.tolist(); anything else goes to json.JSONEncoder.default,     *)
(* which raises TypeError (modelled as the value TypeErrorValue).          *)
(***************************************************************************)
TypeErrorValue == Object("TypeError")

RECURSIVE tolist(_)
tolist(obj) ==
    IF obj.t = "np_array"
    THEN List([i \in DOMAIN obj.items |-> tolist(obj.items[i])])
    ELSE Num(obj.s)

default(obj) ==
    IF obj.t \in NumpyTypes
    THEN IF obj.t = "np_scalar" THEN Num(obj.s) ELSE tolist(obj)
    ELSE TypeErrorValue

(***************************************************************************)
(* What json.dump(..., cls=NumpyEncoder) writes for a value, as the value  *)
(* json.load reads back: tuples and lists are arrays, dicts are objects,   *)
(* and a value of no native type goes through default().                   *)
(***************************************************************************)
RECURSIVE JsonValue(_)
JsonValue(v) ==
    IF v.t \in {"tuple", "list"}
    THEN List([i \in DOMAIN v.items |-> JsonValue(v.items[i])])
    ELSE IF v.t = "dict"
    THEN Dict(v.keys, [i \in DOMAIN v.items |-> JsonValue(v.items[i])])
    ELSE IF v.t \in NativeTypes THEN v
    ELSE default(v)

(* Whether json.dump gets through the value without a TypeError. *)
RECURSIVE Encodable(_)
Encodable(v) ==
    /\ v.t \in NativeTypes \cup NumpyTypes
    /\ \A i \in DOMAIN v.items : Encodable(v.items[i])

(* Whether the value holds a value of a non-native type, at any depth. *)
RECURSIVE HasNonNative(_)
HasNonNative(v) ==
    \/ v.t \notin NativeTypes
    \/ \E i \in DOMAIN v.items : HasNonNative(v.items[i])

(* A dict key as json writes it: None is written "null". *)
JsonKey(k) == IF k.t = "none" THEN Str("null") ELSE Str(k.s)

(* A document is a dict from field names to values. *)
DocEncodable(doc) == \A f \in DOMAIN doc : Encodable(doc[f])
JsonDoc(doc) == [f \in DOMAIN doc |-> JsonValue(doc[f])]

(* event_model.sanitize_doc(doc): json.loads(json.dumps(doc, cls=NumpyEncoder)) *)
sanitize_doc(doc) == JsonDoc(doc)

(* json.dump of the descriptors dict {stream name: {uid: doc}}. *)
JsonDescriptors(ds) ==
    [jn \in {JsonKey(n) : n \in DOMAIN ds} |->
        LET n == CHOOSE n \in DOMAIN ds : JsonKey(n) = jn IN
        [ju \in {JsonKey(u) : u \in DOMAIN ds[n]} |->
            LET u == CHOOSE u \in DOMAIN ds[n] : JsonKey(u) = ju IN
            JsonDoc(ds[n][u])]]

(* Whether json.dump(self._meta) gets through the tree. *)
MetaEncodable(m) ==
    /\ \A k \in DOMAIN m \ {"descriptors"} : DocEncodable(m[k])
    /\ \A n \in DOMAIN m["descriptors"] : \A u \in DOMAIN m["descriptors"][n] :
           DocEncodable(m["descriptors"][n][u])

(* The parsed content of the file json.dump(self._meta, f) writes. *)
JsonDump(m) ==
    [metadata |-> [k \in DOMAIN m |->
        IF k = "descriptors" THEN JsonDescriptors(m[k]) ELSE JsonDoc(m[k])]]

(* d[k] = v on a dict. *)
Put(d, k, v) == [x \in DOMAIN d \cup {k} |-> IF x = k THEN v ELSE d[x]]

(***************************************************************************)
(* The documents the callers and generators of the model feed.             *)
(***************************************************************************)
StartDocs ==
    { [uid |-> Str("abc123"), plan_name |-> Str("scan")],
      [uid |-> Str("u1"), motors |-> Tuple(<<Str("m1")>>),
       num_points |-> NpScalar("3")] }

StopDocs ==
    { [run_start |-> Str("u1"), exit_status |-> Str("success")],
      [run_start |-> Str("u1"), exit_status |-> Str("abort"),
       reason |-> Object("Exception")] }

DescriptorDocs ==
    { [name |-> Str("primary"), uid |-> Str("d1"), data_keys |-> Dict(<<>>, <<>>)],
      [name |-> Str("primary"), uid |-> Str("d1"),
       data_keys |-> Dict(<<"det">>, <<Dict(<<"shape">>, <<Tuple(<<NpScalar("2")>>)>>)>>)],
      [name |-> Str("primary"), uid |-> Str("d2"), time |-> NpScalar("7")],
      [name |-> Str("baseline"), uid |-> Str("d1"),
       data_keys |-> Dict(<<"x">>, <<NpArray(<<NpScalar("1"), NpScalar("2")>>)>>)],
      [uid |-> Str("d3"), data_keys |-> Dict(<<>>, <<>>)],
      [name |-> Str("baseline"), data_keys |-> Dict(<<>>, <<>>)] }

EventDocs == { [descriptor |-> Str("d1"), seq_num |-> Num("1")] }

(* The document kinds DocumentRouter routes to a method Serializer leaves alone. *)
OtherKinds == {"event"}

Items ==
    ({"start"} \X StartDocs) \cup ({"descriptor"} \X DescriptorDocs)
        \cup ({"stop"} \X StopDocs) \cup (OtherKinds \X EventDocs)

(***************************************************************************)
(* A file_prefix template is a sequence of parts: literal text, or a       *)
(* replacement field "{arg[key]}" (key "" for the plain field "{arg}").    *)
(***************************************************************************)
Lit(text) == [kind |-> "lit", arg |-> "", key |-> "", text |-> text]
Field(arg, key) == [kind |-> "field", arg |-> arg, key |-> key, text |-> ""]

DefaultPrefix == <<Field("start", "uid"), Lit("-")>>      \* '{start[uid]}-'
Templates ==
    { DefaultPrefix,
      <<Field("start", "plan_name"), Lit("-")>>,          \* '{start[plan_name]}-'
      <<Field("plan_name", ""), Lit("-")>>,               \* '{plan_name}-'
      <<>> }                                              \* ''

(* str.format with keyword arguments: [ok, text]; ok is FALSE for a KeyError. *)
RECURSIVE format(_, _)
format(tpl, kwargs) ==
    IF tpl = <<>> THEN [ok |-> TRUE, text |-> ""]
    ELSE LET p == Head(tpl)
             rest == format(Tail(tpl), kwargs)
             here ==
                 IF p.kind = "lit" THEN [ok |-> TRUE, text |-> p.text]
                 ELSE IF p.arg \notin DOMAIN kwargs THEN [ok |-> FALSE, text |-> ""]
                 ELSE IF p.key = "" THEN [ok |-> TRUE, text |-> "{...}"]
                 ELSE IF p.key \notin DOMAIN kwargs[p.arg]
                      THEN [ok |-> FALSE, text |-> ""]
                 ELSE [ok |-> TRUE, text |-> kwargs[p.arg][p.key].s]
         IN  IF here.ok /\ rest.ok
             THEN [ok |-> TRUE, text |-> here.text \o rest.text]
             ELSE [ok |-> FALSE, text |-> ""]

(* self._file_prefix.format(start=doc) *)
FormatPrefix(tpl, doc) == format(tpl, [start |-> doc])

(***************************************************************************)
(* suitcase.utils.MultiFileManager, as the Serializer uses it.             *)
(***************************************************************************)
(* What a file whose json.dump stopped at a TypeError holds. *)
Truncated == [complete |-> FALSE, json |-> [metadata |-> EmptyMap]]
Written(m) == [complete |-> TRUE, json |-> JsonDump(m)]

(* open() in mode 'wt': an existing file is no error. *)
OpenRaises_w(postfix) ==
    IF postfix \in reserved_names THEN "SuitcaseUtilsValueError" ELSE "none"

(* manager.open(label, postfix, 'xt'): what it raises. *)
OpenRaises(postfix) ==
    IF postfix \in reserved_names THEN "SuitcaseUtilsValueError"
    ELSE IF postfix \in DOMAIN disk THEN "FileExistsError"
    ELSE "none"

(* manager.close(): every file the manager opened is closed. *)
Closed(fs) == [i \in DOMAIN fs |-> [fs[i] EXCEPT !.closed = TRUE]]

OpenHandles == {i \in DOMAIN files : ~files[i].closed}

(***************************************************************************)
(* Serializer                                                              *)
(***************************************************************************)
(* __init__(directory, file_prefix) with directory a path: a new manager. *)
init(tpl) ==
    /\ meta = [descriptors |-> EmptyMap]
    /\ file_prefix = tpl
    /\ templated_file_prefix = ""
    /\ reserved_names = {}
    /\ artifacts = <<>>
    /\ files = <<>>

construct(tpl) ==
    /\ meta' = [descriptors |-> EmptyMap]
    /\ file_prefix' = tpl
    /\ templated_file_prefix' = ""
    /\ reserved_names' = {}
    /\ artifacts' = <<>>
    /\ files' = <<>>

(* start() without the check for a second start document. *)
start_overwrites(doc) ==
    LET r == FormatPrefix(file_prefix, doc) IN
    /\ meta' = Put(meta, "start", doc)
    /\ templated_file_prefix' = IF r.ok THEN r.text ELSE templated_file_prefix
    /\ raised' = IF r.ok THEN "none" ELSE "KeyError"
    /\ UNCHANGED <<file_prefix, reserved_names, artifacts, files, disk>>

(* start() that stores the document and leaves the prefix unformatted. *)
start_unformatted(doc) ==
    /\ IF "start" \in DOMAIN meta
       THEN /\ raised' = "RuntimeError"
            /\ UNCHANGED meta
       ELSE /\ meta' = Put(meta, "start", doc)
            /\ raised' = "none"
    /\ UNCHANGED <<file_prefix, templated_file_prefix, reserved_names,
                   artifacts, files, disk>>

(* A start that catches the templating error and keeps the old prefix. *)
start_swallows(doc) ==
    /\ IF "start" \in DOMAIN meta
       THEN /\ raised' = "RuntimeError"
            /\ UNCHANGED <<meta, templated_file_prefix>>
       ELSE LET r == FormatPrefix(file_prefix, doc) IN
            /\ meta' = Put(meta, "start", doc)
            /\ templated_file_prefix' =
                   IF r.ok THEN r.text ELSE templated_file_prefix
            /\ raised' = "none"
    /\ UNCHANGED <<file_prefix, reserved_names, artifacts, files, disk>>

start(doc) ==
    /\ IF "start" \in DOMAIN meta
       THEN /\ raised' = "RuntimeError"
            /\ UNCHANGED <<meta, templated_file_prefix>>
       ELSE LET r == FormatPrefix(file_prefix, doc) IN
            /\ meta' = Put(meta, "start", doc)
            /\ templated_file_prefix' =
                   IF r.ok THEN r.text ELSE templated_file_prefix
            /\ raised' = IF r.ok THEN "none" ELSE "KeyError"
    /\ UNCHANGED <<file_prefix, reserved_names, artifacts, files, disk>>

(* close() that leaves the manager's files as they are. *)
close_forgets ==
    /\ UNCHANGED <<reserved_names, artifacts, files>>

close ==
    /\ files' = Closed(files)
    /\ UNCHANGED <<reserved_names, artifacts>>

(* stop() that stores the document and writes no file. *)
stop_unwritten(doc) ==
    /\ meta' = Put(meta, "stop", doc)
    /\ raised' = "none"
    /\ UNCHANGED <<file_prefix, templated_file_prefix, reserved_names,
                   artifacts, files, disk>>

(* stop() that dumps self._meta before it stores the stop document. *)
stop_dumps_first(doc) ==
    LET postfix == templated_file_prefix \o "meta.json"
        err == OpenRaises(postfix)
        f == [name |-> postfix, closed |-> FALSE]
    IN  /\ meta' = Put(meta, "stop", doc)
        /\ IF postfix \in reserved_names
           THEN UNCHANGED <<reserved_names, artifacts>>
           ELSE /\ reserved_names' = reserved_names \cup {postfix}
                /\ artifacts' = Append(artifacts, postfix)
        /\ IF err # "none"
           THEN /\ raised' = err
                /\ UNCHANGED <<files, disk>>
           ELSE IF ~MetaEncodable(meta)
           THEN /\ raised' = "TypeError"
                /\ files' = Append(files, f)
                /\ disk' = Put(disk, postfix, Truncated)
           ELSE /\ raised' = "none"
                /\ files' = Closed(Append(files, f))
                /\ disk' = Put(disk, postfix, Written(meta))
        /\ UNCHANGED <<file_prefix, templated_file_prefix>>

stop(doc) ==
    LET m == Put(meta, "stop", doc)
        postfix == templated_file_prefix \o "meta.json"
        err == OpenRaises(postfix)
        f == [name |-> postfix, closed |-> FALSE]
    IN  /\ meta' = m
        /\ IF postfix \in reserved_names
           THEN UNCHANGED <<reserved_names, artifacts>>
           ELSE /\ reserved_names' = reserved_names \cup {postfix}
                /\ artifacts' = Append(artifacts, postfix)
        /\ IF err # "none"
           THEN /\ raised' = err
                /\ UNCHANGED <<files, disk>>
           ELSE IF ~MetaEncodable(m)
           THEN /\ raised' = "TypeError"
                /\ files' = Append(files, f)
                /\ disk' = Put(disk, postfix, Truncated)
           ELSE /\ raised' = "none"
                /\ files' = Closed(Append(files, f))
                /\ disk' = Put(disk, postfix, Written(m))
        /\ UNCHANGED <<file_prefix, templated_file_prefix>>

(* descriptor() that reads the stream name from a field no document has. *)
descriptor_ungrouped(doc) ==
    LET stream_name == None
        sanitized_doc == sanitize_doc(doc)
        ds == meta["descriptors"]
        group == IF stream_name \in DOMAIN ds THEN ds
                 ELSE Put(ds, stream_name, EmptyMap)
    IN  /\ IF ~DocEncodable(doc)
           THEN /\ raised' = "TypeError"
                /\ UNCHANGED meta
           ELSE IF "uid" \notin DOMAIN sanitized_doc
           THEN /\ raised' = "KeyError"
                /\ meta' = Put(meta, "descriptors", group)
           ELSE /\ raised' = "none"
                /\ meta' = Put(meta, "descriptors",
                       Put(group, stream_name,
                           Put(group[stream_name], sanitized_doc["uid"],
                               sanitized_doc)))
        /\ UNCHANGED <<file_prefix, templated_file_prefix, reserved_names,
                       artifacts, files, disk>>

(* descriptor() that keeps the entry a (stream name, uid) pair already has. *)
descriptor_keeps_first(doc) ==
    LET stream_name == IF "name" \in DOMAIN doc THEN doc["name"] ELSE None
        sanitized_doc == sanitize_doc(doc)
        ds == meta["descriptors"]
        group == IF stream_name \in DOMAIN ds THEN ds
                 ELSE Put(ds, stream_name, EmptyMap)
    IN  /\ IF ~DocEncodable(doc)
           THEN /\ raised' = "TypeError"
                /\ UNCHANGED meta
           ELSE IF "uid" \notin DOMAIN sanitized_doc
           THEN /\ raised' = "KeyError"
                /\ meta' = Put(meta, "descriptors", group)
           ELSE /\ raised' = "none"
                /\ meta' = IF sanitized_doc["uid"] \in DOMAIN group[stream_name]
                           THEN Put(meta, "descriptors", group)
                           ELSE Put(meta, "descriptors",
                                    Put(group, stream_name,
                                        Put(group[stream_name],
                                            sanitized_doc["uid"], sanitized_doc)))
        /\ UNCHANGED <<file_prefix, templated_file_prefix, reserved_names,
                       artifacts, files, disk>>

(* A descriptor that stores the document as received. *)
descriptor_unsanitized(doc) ==
    LET stream_name == IF "name" \in DOMAIN doc THEN doc["name"] ELSE None
        ds == meta["descriptors"]
        group == IF stream_name \in DOMAIN ds THEN ds
                 ELSE Put(ds, stream_name, EmptyMap)
    IN  /\ IF "uid" \notin DOMAIN doc
           THEN /\ raised' = "KeyError"
                /\ meta' = Put(meta, "descriptors", group)
           ELSE /\ raised' = "none"
                /\ meta' = Put(meta, "descriptors",
                       Put(group, stream_name,
                           Put(group[stream_name], doc["uid"], doc)))
        /\ UNCHANGED <<file_prefix, templated_file_prefix, reserved_names,
                       artifacts, files, disk>>

descriptor(doc) ==
    LET stream_name == IF "name" \in DOMAIN doc THEN doc["name"] ELSE None
        sanitized_doc == sanitize_doc(doc)
        ds == meta["descriptors"]
        group == IF stream_name \in DOMAIN ds THEN ds
                 ELSE Put(ds, stream_name, EmptyMap)
    IN  /\ IF ~DocEncodable(doc)
           THEN /\ raised' = "TypeError"
                /\ UNCHANGED meta
           ELSE IF "uid" \notin DOMAIN sanitized_doc
           THEN /\ raised' = "KeyError"
                /\ meta' = Put(meta, "descriptors", group)
           ELSE /\ raised' = "none"
                /\ meta' = Put(meta, "descriptors",
                       Put(group, stream_name,
                           Put(group[stream_name], sanitized_doc["uid"],
                               sanitized_doc)))
        /\ UNCHANGED <<file_prefix, templated_file_prefix, reserved_names,
                       artifacts, files, disk>>

(* DocumentRouter's method for a kind Serializer does not override. *)
ignore(doc) ==
    /\ raised' = "none"
    /\ UNCHANGED <<meta, file_prefix, templated_file_prefix, reserved_names,
                   artifacts, files, disk>>

(* A router whose Serializer also handles the other kinds, as descriptors. *)
dispatch_collects(name, doc) ==
    CASE name = "start" -> start(doc)
      [] name = "stop" -> stop(doc)
      [] OTHER -> descriptor(doc)

(* DocumentRouter.__call__(name, doc): getattr(self, name)(doc) *)
dispatch(name, doc) ==
    CASE name = "start" -> start(doc)
      [] name = "descriptor" -> descriptor(doc)
      [] name = "stop" -> stop(doc)
      [] OTHER -> ignore(doc)

fed(name, doc) ==
    /\ docs' = Append(docs, [name |-> name, doc |-> doc])
    /\ nfed' = nfed + 1

(***************************************************************************)
(* Spec: one Serializer used directly.                                     *)
(***************************************************************************)
Init ==
    /\ \E tpl \in Templates : init(tpl)
    /\ disk = EmptyMap
    /\ raised = "none"
    /\ docs = <<>>
    /\ pc = "direct"
    /\ run = 1
    /\ nfed = 0
    /\ exit_closes = 0

CallStart ==
    /\ pc = "direct" /\ nfed < MaxDocs
    /\ \E doc \in StartDocs : start(doc) /\ fed("start", doc)
    /\ UNCHANGED <<pc, run, exit_closes>>

CallDescriptor ==
    /\ pc = "direct" /\ nfed < MaxDocs
    /\ \E doc \in DescriptorDocs : descriptor(doc) /\ fed("descriptor", doc)
    /\ UNCHANGED <<pc, run, exit_closes>>

CallStop ==
    /\ pc = "direct" /\ nfed < MaxDocs
    /\ \E doc \in StopDocs : stop(doc) /\ fed("stop", doc)
    /\ UNCHANGED <<pc, run, exit_closes>>

CallOther ==
    /\ pc = "direct" /\ nfed < MaxDocs
    /\ \E name \in OtherKinds, doc \in EventDocs :
           dispatch(name, doc) /\ fed(name, doc)
    /\ UNCHANGED <<pc, run, exit_closes>>

CallClose ==
    /\ pc = "direct"
    /\ close
    /\ raised' = "none"
    /\ UNCHANGED <<serializer_vars, disk, docs, pc, run, nfed, exit_closes>>

Next ==
    \/ CallStart
    \/ CallDescriptor
    \/ CallStop
    \/ CallOther
    \/ CallClose

Spec == Init /\ [][Next]_vars

(***************************************************************************)
(* SpecExport: export(gen, directory, file_prefix)                         *)
(*     with Serializer(directory, file_prefix) as serializer:              *)
(*         for item in gen: serializer(name, doc)                          *)
(*     return serializer.artifacts                                         *)
(***************************************************************************)
InitExport ==
    /\ \E tpl \in Templates : init(tpl)
    /\ disk = EmptyMap
    /\ raised = "none"
    /\ docs = <<>>
    /\ pc = "loop"
    /\ run = 1
    /\ nfed = 0
    /\ exit_closes = 0

(* The generator yields an item and the Serializer is called with it. *)
ExportItem ==
    /\ pc = "loop" /\ nfed < MaxDocs
    /\ \E item \in Items : dispatch(item[1], item[2]) /\ fed(item[1], item[2])
    /\ pc' = IF raised' = "none" THEN "loop" ELSE "exit"
    /\ UNCHANGED <<run, exit_closes>>

(* The generator raises. *)
ExportGenRaises ==
    /\ pc = "loop"
    /\ raised' = "GeneratorError"
    /\ pc' = "exit"
    /\ UNCHANGED <<serializer_vars, manager_vars, disk, docs, run, nfed,
                   exit_closes>>

(* The generator is exhausted. *)
ExportExhausted ==
    /\ pc = "loop"
    /\ pc' = "exit"
    /\ UNCHANGED <<serializer_vars, manager_vars, disk, raised, docs, run,
                   nfed, exit_closes>>

(* __exit__ that does not call close(). *)
exit_without_close ==
    /\ pc' = IF raised = "none" THEN "returned" ELSE "propagated"
    /\ UNCHANGED <<serializer_vars, manager_vars, disk, raised, docs, run, nfed,
                   exit_closes>>

(* __exit__: close(), and the exception, if there is one, goes on. *)
exit ==
    /\ close
    /\ exit_closes' = exit_closes + 1
    /\ pc' = IF raised = "none" THEN "returned" ELSE "propagated"
    /\ UNCHANGED <<serializer_vars, disk, raised, docs, run, nfed>>

ExportExit ==
    /\ pc = "exit"
    /\ exit

(* export() is called again on the same directory with the same file_prefix. *)
ExportAgain ==
    /\ pc \in {"returned", "propagated"} /\ run < MaxRuns
    /\ construct(file_prefix)
    /\ run' = run + 1
    /\ raised' = "none"
    /\ docs' = <<>>
    /\ pc' = "loop"
    /\ exit_closes' = 0
    /\ UNCHANGED <<disk, nfed>>

NextExport ==
    \/ ExportItem
    \/ ExportGenRaises
    \/ ExportExhausted
    \/ ExportExit
    \/ ExportAgain

SpecExport == InitExport /\ [][NextExport]_vars

(***************************************************************************)
(* What the properties below read off the documents fed so far.            *)
(***************************************************************************)
Fed(kind) == {i \in DOMAIN docs : docs[i].name = kind}
FirstFed(kind) == CHOOSE i \in Fed(kind) : \A j \in Fed(kind) : i <= j
LastFed(kind) == CHOOSE i \in Fed(kind) : \A j \in Fed(kind) : j <= i

(* This step feeds a document of the kind to the Serializer. *)
Feeds(kind) == nfed' = nfed + 1 /\ docs'[Len(docs')].name = kind

(* The documents are one run: a start, descriptors and other kinds, a stop. *)
OneRun ==
    /\ Len(docs) >= 2
    /\ docs[1].name = "start"
    /\ docs[Len(docs)].name = "stop"
    /\ \A i \in 2..(Len(docs) - 1) : docs[i].name \notin {"start", "stop"}

(***************************************************************************)
(* C1: once a start document is stored, every further start call raises    *)
(* the RuntimeError and metadata.start stays the first start document:     *)
(* whenever a start document was fed, metadata.start is the first one fed. *)
(***************************************************************************)
C1_SecondStartRaises ==
    /\ [](Fed("start") # {} =>
             /\ "start" \in DOMAIN meta
             /\ meta["start"] = docs[FirstFed("start")].doc)
    /\ [][(Feeds("start") /\ Fed("start") # {}) =>
             (raised' = "RuntimeError" /\ meta' = meta)]_vars

C1_Witness ==
    /\ Len(docs) >= 2
    /\ docs[1].name = "start" /\ docs[2].name = "start"
    /\ docs[1].doc # docs[2].doc
    /\ raised = "RuntimeError"
    /\ meta["start"] = docs[1].doc

StreamName(doc) == IF "name" \in DOMAIN doc THEN doc["name"] ELSE None
Descriptors == {i \in Fed("descriptor") : "uid" \in DOMAIN docs[i].doc}
LastOf(n, u) ==
    CHOOSE i \in Descriptors :
        /\ StreamName(docs[i].doc) = n /\ docs[i].doc["uid"] = u
        /\ \A j \in Descriptors :
               (StreamName(docs[j].doc) = n /\ docs[j].doc["uid"] = u) => j <= i
ReferenceDescriptors ==
    [n \in {StreamName(docs[i].doc) : i \in Descriptors} |->
        [u \in {docs[i].doc["uid"] : i \in {j \in Descriptors :
                                              StreamName(docs[j].doc) = n}} |->
            sanitize_doc(docs[LastOf(n, u)].doc)]]
Reference ==
    [metadata |-> [start |-> docs[LastFed("start")].doc,
                   stop |-> docs[LastFed("stop")].doc,
                   descriptors |-> ReferenceDescriptors]]

(* The same structure as JSON holds it: the start and stop documents       *)
(* sanitized as the descriptors are, and the stream name None as "null".   *)
JsonReference ==
    [metadata |-> [start |-> sanitize_doc(docs[LastFed("start")].doc),
                   stop |-> sanitize_doc(docs[LastFed("stop")].doc),
                   descriptors |->
                       [jn \in {JsonKey(n) : n \in DOMAIN ReferenceDescriptors} |->
                           ReferenceDescriptors[
                               CHOOSE n \in DOMAIN ReferenceDescriptors :
                                   JsonKey(n) = jn]]]]

(***************************************************************************)
(* C3 as stated: the content of the file export() wrote for a run equals   *)
(* the reference structure with the start and stop documents as fed.       *)
(***************************************************************************)
C3_ContentIsReference ==
    (pc = "returned" /\ OneRun) =>
        \A i \in DOMAIN artifacts : disk[artifacts[i]].json = Reference

(***************************************************************************)
(* C3 amended: the content of the file export() wrote for a run equals the *)
(* reference structure as JSON holds it: the start and stop documents      *)
(* sanitized like the descriptors, a missing stream name as the key "null".*)
(***************************************************************************)
C3_ContentIsJsonReference ==
    (pc = "returned" /\ OneRun) =>
        /\ artifacts # <<>>
        /\ \A i \in DOMAIN artifacts :
               /\ disk[artifacts[i]].complete
               /\ disk[artifacts[i]].json = JsonReference

C3_Witness ==
    /\ pc = "returned" /\ OneRun /\ Len(docs) = 4
    /\ docs[2].name = "descriptor" /\ docs[3].name = "descriptor"
    /\ HasNonNative(docs[1].doc["uid"]) = FALSE
    /\ \E f \in DOMAIN docs[1].doc : docs[1].doc[f].t = "tuple"
    /\ "name" \notin DOMAIN docs[3].doc
    /\ disk[artifacts[1]].json = JsonReference
    /\ disk[artifacts[1]].json # Reference

(* A start document was fed, and before any stop document. *)
StartCameFirst ==
    /\ Fed("start") # {}
    /\ \A i \in Fed("stop") : FirstFed("start") < i

(***************************************************************************)
(* C4: in a run whose start document came before any stop document, every  *)
(* filename listed under run_metadata is the file_prefix template formatted*)
(* with that start document, followed by "meta.json"; with the default     *)
(* template it is the start document's uid followed by "-meta.json".       *)
(***************************************************************************)
C4_FilenameFromTemplate ==
    StartCameFirst =>
        \A i \in DOMAIN artifacts :
            LET doc == docs[FirstFed("start")].doc IN
            /\ FormatPrefix(file_prefix, doc).ok
            /\ artifacts[i] = FormatPrefix(file_prefix, doc).text \o "meta.json"
            /\ file_prefix = DefaultPrefix =>
                   artifacts[i] = doc["uid"].s \o "-meta.json"

C4_Witness ==
    /\ file_prefix = DefaultPrefix
    /\ pc = "returned" /\ OneRun
    /\ artifacts = <<"abc123-meta.json">>
    /\ "abc123-meta.json" \in DOMAIN disk

(* The template '{plan_name}-' and the start document of the docstring's run. *)
FlatPrefix == <<Field("plan_name", ""), Lit("-")>>
ScanStart == [uid |-> Str("abc123"), plan_name |-> Str("scan")]

(***************************************************************************)
(* C5: with the start document {uid: 'abc123', plan_name: 'scan'} and the  *)
(* template '{plan_name}-', the start call does not raise and the file of  *)
(* the run is named 'scan-meta.json'.                                      *)
(***************************************************************************)
C5_FlatFieldTemplate ==
    (file_prefix = FlatPrefix /\ docs # <<>>
        /\ docs[1] = [name |-> "start", doc |-> ScanStart]) =>
        /\ pc # "propagated"
        /\ templated_file_prefix \o "meta.json" = "scan-meta.json"
        /\ (pc = "returned" /\ OneRun) => artifacts = <<"scan-meta.json">>

(* The filename stop() opens. *)
Target == templated_file_prefix \o "meta.json"

(***************************************************************************)
(* C6: when the file a stop would create is already in the directory, left *)
(* by an earlier export, the stop raises FileExistsError, export() ends    *)
(* with that error, and the directory is as before; no step changes what a *)
(* file of the directory holds.                                            *)
(***************************************************************************)
C6_CollisionFails ==
    /\ [][(Feeds("stop") /\ Target \in DOMAIN disk
              /\ Target \notin reserved_names) =>
             (raised' = "FileExistsError" /\ pc' = "exit" /\ disk' = disk)]_vars
    /\ [][\A n \in DOMAIN disk : n \in DOMAIN disk' /\ disk'[n] = disk[n]]_vars
    /\ [](pc = "returned" => raised = "none")

C6_Witness ==
    /\ run = 2 /\ pc = "propagated" /\ raised = "FileExistsError"
    /\ OneRun
    /\ artifacts = <<Target>>
    /\ disk[Target].complete
    /\ "start" \in DOMAIN disk[Target].json.metadata
    /\ files = <<>>

(***************************************************************************)
(* C7: a close() call raises nothing, leaves no handle open and changes    *)
(* nothing but the handles it closes, so a close() with no handle open     *)
(* changes nothing; with no document fed the artifact listing is empty.    *)
(***************************************************************************)
C7_CloseIdempotent ==
    /\ [][(nfed' = nfed) =>
             /\ raised' = "none"
             /\ OpenHandles' = {}
             /\ Len(files') = Len(files)
             /\ \A i \in DOMAIN files : files'[i].name = files[i].name
             /\ OpenHandles = {} => files' = files
             /\ UNCHANGED <<meta, file_prefix, templated_file_prefix,
                            reserved_names, artifacts, disk>>]_vars
    /\ [](docs = <<>> => (artifacts = <<>> /\ OpenHandles = {}))

C7_Witness ==
    /\ Len(files) = 1 /\ files[1].closed
    /\ ~disk[files[1].name].complete
    /\ raised = "none"
    /\ docs[Len(docs)].name = "stop"

(***************************************************************************)
(* C8: __exit__ calls close() exactly once when the loop of export() has   *)
(* ended, however it ended; afterwards no handle is open, and export()     *)
(* raises exactly when the generator or a handler raised, with that error. *)
(***************************************************************************)
C8_ExitClosesOnce ==
    /\ [](pc \in {"loop", "exit"} => exit_closes = 0)
    /\ [](pc \in {"returned", "propagated"} =>
             /\ exit_closes = 1
             /\ OpenHandles = {}
             /\ (pc = "propagated") <=> (raised # "none"))
    /\ [][pc = "exit" => (raised' = raised /\ pc' \in {"returned", "propagated"})]_vars

C8_Witness ==
    /\ pc = "propagated" /\ raised = "TypeError"
    /\ files # <<>> /\ OpenHandles = {}
    /\ exit_closes = 1

(***************************************************************************)
(* C9: the keys of metadata.descriptors are exactly the stream names of    *)
(* the descriptors fed (None for a descriptor with no name), and the entry *)
(* of a key holds exactly one descriptor per uid fed under that name, a    *)
(* sanitized descriptor of that name and uid.  A descriptor fed with no    *)
(* uid counts for its stream name and adds no entry.                       *)
(***************************************************************************)
C9_Grouping ==
    LET ds == meta["descriptors"]
        Named(n) == {i \in Fed("descriptor") : StreamName(docs[i].doc) = n}
        WithUid(n) == {i \in Named(n) : "uid" \in DOMAIN docs[i].doc}
    IN  /\ DOMAIN ds = {StreamName(docs[i].doc) : i \in Fed("descriptor")}
        /\ \A n \in DOMAIN ds :
               /\ DOMAIN ds[n] = {docs[i].doc["uid"] : i \in WithUid(n)}
               /\ \A u \in DOMAIN ds[n] : \E i \in WithUid(n) :
                      /\ docs[i].doc["uid"] = u
                      /\ ds[n][u] = sanitize_doc(docs[i].doc)

C9_Witness ==
    /\ Cardinality(Fed("descriptor")) = 3
    /\ \A i \in Fed("descriptor") : "uid" \in DOMAIN docs[i].doc
    /\ Cardinality(DOMAIN meta["descriptors"]) = 2
    /\ None \in DOMAIN meta["descriptors"]
    /\ \E n \in DOMAIN meta["descriptors"] :
           Cardinality(DOMAIN meta["descriptors"][n]) = 2

(***************************************************************************)
(* C10: a descriptor whose (stream name, uid) pair was fed before replaces *)
(* the entry of that pair by its own sanitized content, and adds no entry  *)
(* and changes no other entry.                                             *)
(***************************************************************************)
C10_LaterDescriptorReplaces ==
    [][LET d == docs'[Len(docs')].doc
           ds == meta["descriptors"]
           after == meta'["descriptors"]
       IN  (/\ Feeds("descriptor")
            /\ "uid" \in DOMAIN d
            /\ \E i \in Descriptors : /\ StreamName(docs[i].doc) = StreamName(d)
                                      /\ docs[i].doc["uid"] = d["uid"]) =>
               /\ after[StreamName(d)][d["uid"]] = sanitize_doc(d)
               /\ DOMAIN after = DOMAIN ds
               /\ \A n \in DOMAIN ds :
                      /\ DOMAIN after[n] = DOMAIN ds[n]
                      /\ \A u \in DOMAIN ds[n] :
                             (n # StreamName(d) \/ u # d["uid"]) =>
                                 after[n][u] = ds[n][u]]_vars

C10_Witness ==
    /\ Len(docs) = 3
    /\ \A i \in 1..3 : docs[i].name = "descriptor" /\ "uid" \in DOMAIN docs[i].doc
    /\ StreamName(docs[1].doc) # StreamName(docs[2].doc)
    /\ StreamName(docs[2].doc) = StreamName(docs[3].doc)
    /\ docs[2].doc["uid"] = docs[3].doc["uid"]
    /\ sanitize_doc(docs[2].doc) # sanitize_doc(docs[3].doc)
    /\ meta["descriptors"][StreamName(docs[3].doc)][docs[3].doc["uid"]]
           = sanitize_doc(docs[3].doc)
    /\ Cardinality(DOMAIN meta["descriptors"][StreamName(docs[3].doc)]) = 1

(***************************************************************************)
(* Whether a document holds a value of a non-native type in some field.    *)
(***************************************************************************)
DocHasNonNative(doc) == \E f \in DOMAIN doc : HasNonNative(doc[f])

TreeDescriptorsNative ==
    \A n \in DOMAIN meta["descriptors"] :
        \A u \in DOMAIN meta["descriptors"][n] :
            ~DocHasNonNative(meta["descriptors"][n][u])

FileNative(c) ==
    /\ \A k \in DOMAIN c.json.metadata \ {"descriptors"} :
           ~DocHasNonNative(c.json.metadata[k])
    /\ "descriptors" \in DOMAIN c.json.metadata =>
           \A n \in DOMAIN c.json.metadata["descriptors"] :
               \A u \in DOMAIN c.json.metadata["descriptors"][n] :
                   ~DocHasNonNative(c.json.metadata["descriptors"][n][u])

(***************************************************************************)
(* C11 as stated: in every reachable state no value of a non-native type   *)
(* is anywhere in metadata.start, metadata.stop or metadata.descriptors.   *)
(***************************************************************************)
C11_TreeIsNative ==
    /\ \A k \in DOMAIN meta \ {"descriptors"} : ~DocHasNonNative(meta[k])
    /\ TreeDescriptorsNative

(***************************************************************************)
(* C11: in every reachable state metadata.descriptors holds no value of a  *)
(* non-native type, metadata.start and metadata.stop are the documents as  *)
(* they were received, and every file written whole holds no value of a    *)
(* non-native type.                                                        *)
(***************************************************************************)
C11_DescriptorsAndFileNative ==
    /\ TreeDescriptorsNative
    /\ \A k \in DOMAIN meta \ {"descriptors"} :
           \E i \in Fed(k) : meta[k] = docs[i].doc
    /\ \A name \in DOMAIN disk : disk[name].complete => FileNative(disk[name])

C11_Witness ==
    /\ "start" \in DOMAIN meta
    /\ DocHasNonNative(meta["start"])
    /\ \E i \in Fed("descriptor") :
           /\ DocHasNonNative(docs[i].doc)
           /\ "uid" \in DOMAIN docs[i].doc
           /\ docs[i].doc["uid"] \in
                  DOMAIN meta["descriptors"][StreamName(docs[i].doc)]
    /\ Target \in DOMAIN disk
    /\ disk[Target].complete
    /\ disk[Target].json.metadata["start"] = JsonDoc(meta["start"])

(***************************************************************************)
(* The run began with a start document the prefix template cannot be       *)
(* evaluated against.                                                      *)
(***************************************************************************)
UnresolvedRun ==
    /\ docs # <<>>
    /\ docs[1].name = "start"
    /\ ~FormatPrefix(file_prefix, docs[1].doc).ok

(***************************************************************************)
(* C12: a first start document that lacks a field the prefix template      *)
(* names makes the start operation raise KeyError and end the export loop; *)
(* a stop never raises KeyError; and a run that began with such a start    *)
(* feeds no further document, propagates the KeyError, reserves no name,   *)
(* opens no file, lists no artifact and leaves the directory as it was.    *)
(***************************************************************************)
C12_TemplateErrorAtStart ==
    [][LET d == docs'[Len(docs')].doc IN
       /\ (/\ Feeds("start")
           /\ "start" \notin DOMAIN meta
           /\ ~FormatPrefix(file_prefix, d).ok) =>
              /\ raised' = "KeyError"
              /\ pc' = "exit"
              /\ UNCHANGED <<reserved_names, artifacts, files, disk>>
       /\ Feeds("stop") => raised' # "KeyError"
       /\ (UnresolvedRun /\ run' = run) =>
              /\ pc \in {"exit", "propagated"}
              /\ pc' = "propagated"
              /\ raised' = "KeyError"
              /\ docs' = docs
              /\ reserved_names' = {}
              /\ artifacts' = <<>>
              /\ files' = <<>>
              /\ disk' = disk]_vars

C12_Witness ==
    /\ UnresolvedRun
    /\ Len(docs) = 1
    /\ file_prefix = <<Field("start", "plan_name"), Lit("-")>>
    /\ "plan_name" \notin DOMAIN docs[1].doc
    /\ pc = "propagated"
    /\ raised = "KeyError"
    /\ artifacts = <<>>
    /\ files = <<>>
    /\ disk = EmptyMap

(***************************************************************************)
(* C13: feeding a document of a kind other than start, descriptor and stop *)
(* raises nothing and leaves the metadata tree, the templated prefix, the  *)
(* manager's handles and reserved names, the artifact listing and the      *)
(* directory unchanged.                                                    *)
(***************************************************************************)
C13_OtherKindsIgnored ==
    [][(/\ nfed' = nfed + 1
        /\ docs'[Len(docs')].name \notin {"start", "descriptor", "stop"}) =>
           /\ raised' = "none"
           /\ UNCHANGED <<meta, file_prefix, templated_file_prefix,
                          reserved_names, artifacts, files, disk>>]_vars

C13_Witness ==
    /\ Len(docs) = 3
    /\ docs[3].name = "event"
    /\ raised = "none"
    /\ "start" \in DOMAIN meta
    /\ templated_file_prefix # ""
    /\ OpenHandles # {}
    /\ artifacts # <<>>

(***************************************************************************)
(* C14: a stop fed after a stop has written the file whole raises, adds no *)
(* file to the directory and no entry to the artifact listing, so that at  *)
(* most one file is ever written whole.                                    *)
(***************************************************************************)
C14_AtMostOneWrite ==
    [][(/\ Feeds("stop")
        /\ \E name \in DOMAIN disk : disk[name].complete) =>
           /\ raised' # "none"
           /\ artifacts' = artifacts
           /\ DOMAIN disk' = DOMAIN disk
           /\ Cardinality({name \in DOMAIN disk' : disk'[name].complete}) = 1]_vars

(***************************************************************************)
(* C15: once a stop has set metadata.stop, no later operation changes it,  *)
(* a further stop that raises included.                                    *)
(***************************************************************************)
C15_StopSetOnce ==
    [][("stop" \in DOMAIN meta) =>
           /\ "stop" \in DOMAIN meta'
           /\ meta'["stop"] = meta["stop"]]_vars

(***************************************************************************)
(* C16: every file in the directory was written by a stop that came after  *)
(* an accepted start, under the name the prefix template evaluates to      *)
(* against that start document; a stop with no start before it leaves the  *)
(* directory empty.                                                        *)
(***************************************************************************)
C16_FileOnlyAfterStart ==
    /\ (Fed("stop") # {} /\ \A i \in Fed("stop") :
            \A j \in Fed("start") : i < j) => DOMAIN disk = {}
    /\ \A name \in DOMAIN disk :
           /\ Fed("start") # {}
           /\ \E i \in Fed("stop") : FirstFed("start") < i
           /\ LET r == FormatPrefix(file_prefix, docs[FirstFed("start")].doc)
              IN  r.ok /\ name = r.text \o "meta.json"

(***************************************************************************)
(* SpecShared: the Serializer is given a manager instance (lines 173-176)  *)
(* that another writer uses too.  The other writer opens one file of its   *)
(* own, under another label, through the same manager.                     *)
(***************************************************************************)
OtherName == "events.csv"

OtherUserOpens ==
    /\ pc = "direct"
    /\ OtherName \notin reserved_names
    /\ OtherName \notin DOMAIN disk
    /\ reserved_names' = reserved_names \cup {OtherName}
    /\ files' = Append(files, [name |-> OtherName, closed |-> FALSE])
    /\ disk' = Put(disk, OtherName, Truncated)
    /\ UNCHANGED <<serializer_vars, artifacts, raised, docs, pc, run, nfed,
                   exit_closes>>

NextShared ==
    \/ Next
    \/ OtherUserOpens

SpecShared == Init /\ [][NextShared]_vars

(***************************************************************************)
(* C17: on a manager shared with another writer, no step of the Serializer *)
(* closes a handle the other writer holds open.                            *)
(***************************************************************************)
C17_OthersStayOpen ==
    [][\A i \in DOMAIN files :
           (files[i].name = OtherName /\ ~files[i].closed) =>
               (i \in DOMAIN files' /\ ~files'[i].closed)]_vars

(***************************************************************************)
(* C18: a start that raises the templating error leaves the metadata tree  *)
(* and the templated prefix as they were before the call, so metadata.start*)
(* stays absent and a later start is not rejected as a duplicate.          *)
(***************************************************************************)
C18_FailedStartChangesNothing ==
    [][(Feeds("start") /\ raised' = "KeyError") =>
           /\ meta' = meta
           /\ "start" \notin DOMAIN meta'
           /\ templated_file_prefix' = templated_file_prefix]_vars

(***************************************************************************)
(* C19: every stream name that is a key of metadata.descriptors has at     *)
(* least one descriptor under it.                                          *)
(***************************************************************************)
C19_NoEmptyStreamGroup ==
    \A n \in DOMAIN meta["descriptors"] : DOMAIN meta["descriptors"][n] # {}

====
